---- MODULE Spec2Model ----
(***************************************************************************)
(* apiService.request and its convenience wrappers (get/post/put/delete)   *)
(* over the platform fetch primitive, the token store in localStorage and  *)
(* the auth utilities that write it.                                        *)
(*                                                                         *)
(* One call of request is a JavaScript async function: it runs to          *)
(* completion between awaits, so each action below is one such run: from   *)
(* the invocation to the fetch, from the arrival of the response headers   *)
(* to the next body read, and from the arrival of the body to the          *)
(* settlement of the promise.  Calls interleave only at the awaits.        *)
(***************************************************************************)
EXTENDS Integers, Sequences, FiniteSets, TLC

VARIABLES
    localStorage,   \* the browser's key-value store: a function on the keys present
    location,       \* window.location.href
    dispatched,     \* events handed to window.dispatchEvent, in order
    pc,             \* pc[c]: where call c of request stands
    entry,          \* entry[c]: the exported function the caller used, and the body argument given to it
    frame,          \* frame[c]: the locals of request destructured from options (lines 20-26)
    network,        \* network[c]: the fetch(url, requestOptions) invocations of call c still in flight
    response,       \* response[c]: what the network primitive answered to call c
    result,         \* result[c]: how the promise returned to the caller settled
    effects,        \* effects[c]: the collaborator calls made by call c, in program order
    console         \* console[c]: the console.error lines written by call c

vars == <<localStorage, location, dispatched, pc, entry, frame, network,
          response, result, effects, console>>

-----------------------------------------------------------------------------
(* JavaScript values.  Every value is a record of one shape so that values  *)
(* of different JavaScript types can be compared; detail and message are    *)
(* the two properties request reads from a parsed error body, <<>> when the *)
(* property is missing.                                                     *)

Val(t, v) == [t |-> t, v |-> v, detail |-> <<>>, message |-> <<>>]
Obj(d, m) == [t |-> "object", v |-> "", detail |-> d, message |-> m]

Undefined == Val("undefined", "")
Null == Val("null", "")
EmptyObject == Obj(<<>>, <<>>)
Str(s) == Val("string", s)
Err(m) == Val("Error", m)

\* ToBoolean: what `x ? a : b`, `x || y` and `if (x)` test.
Truthy(x) ==
    CASE x.t = "undefined" -> FALSE
      [] x.t = "null" -> FALSE
      [] x.t = "string" -> x.v # ""
      [] x.t = "number" -> x.v # "0"
      [] x.t = "boolean" -> x.v = "true"
      [] OTHER -> TRUE

Quote(s) == "\"" \o s \o "\""

\* JSON.stringify on a value other than undefined (strings of the model hold
\* no character that needs escaping).
JSON_stringify(x) ==
    CASE x.t = "null" -> "null"
      [] x.t = "number" -> x.v
      [] x.t = "boolean" -> x.v
      [] x.t = "string" -> Quote(x.v)
      [] x.t = "object" ->
            "{" \o (IF x.detail # <<>> THEN "\"detail\":" \o Quote(x.detail[1]) ELSE "")
                \o (IF x.detail # <<>> /\ x.message # <<>> THEN "," ELSE "")
                \o (IF x.message # <<>> THEN "\"message\":" \o Quote(x.message[1]) ELSE "")
                \o "}"

\* The JSON documents the model can tell apart.
JsonValues ==
    {Null, Val("number", "0"), Val("number", "5"), Val("boolean", "false"),
     Str("oops")}
    \cup {Obj(d, m) : d \in {<<>>, <<"">>, <<"bad">>}, m \in {<<>>, <<"">>, <<"msg">>}}

\* JSON.parse: the value whose canonical text is the input, or a SyntaxError.
JSON_parse(text) ==
    IF \E v \in JsonValues : JSON_stringify(v) = text
    THEN [ok |-> TRUE, value |-> CHOOSE v \in JsonValues : JSON_stringify(v) = text]
    ELSE [ok |-> FALSE, value |-> Undefined]

-----------------------------------------------------------------------------
(* Inputs.  Text that the code inspects character by character (the        *)
(* endpoint) is a sequence of characters; text it only passes on or        *)
(* compares is a string.                                                    *)

Endpoints == {<<"/", "u">>, <<"u">>}
Methods == {"GET", "POST", "PUT", "DELETE", "PATCH"}
Bodies ==
    {Undefined, Null, Val("number", "0"), Val("boolean", "false"), Str("oops"),
     Obj(<<"bad">>, <<>>)}
CallerHeaders ==
    {<<>>, "Authorization" :> "Basic x", "Content-Type" :> "text/plain"}
Tokens == {"", "t1", "t2"}
Statuses == {200, 401, 404, 500}
Texts == {"", "oops"} \cup {JSON_stringify(v) : v \in JsonValues}

\* An options bag: any subset of the properties named in keys, each with any value.
OptionBags(keys) ==
    {[k \in K |-> full[k]] :
        full \in [method : Methods, body : Bodies, headers : CallerHeaders,
                  skipAuth : BOOLEAN, parseAsJson : BOOLEAN],
        K \in SUBSET keys}

\* What the declared type of options admits: ApiOptions for request,
\* Omit<ApiOptions, 'method' | 'body'> for get, Omit<ApiOptions, 'method'> for
\* post, put and delete.
RequestOptions == OptionBags({"method", "body", "headers", "skipAuth", "parseAsJson"})
GetOptions == OptionBags({"headers", "skipAuth", "parseAsJson"})
BodyOptions == OptionBags({"body", "headers", "skipAuth", "parseAsJson"})

\* The inputs of the specification of concurrent calls.
FewEndpoints == {<<"/", "u">>}
FewBags == {<<>>, [skipAuth |-> TRUE]}
FewTokens == {"t1"}
FewStatuses == {200, 401}
FewTexts == {"{}"}

\* How many request calls the concurrent specification runs.
MaxCalls == 3
\* How many events window.dispatchEvent is followed for.
MaxEvents == 1

-----------------------------------------------------------------------------
(* The token store.                                                         *)

TokenKey == "authToken"
LOGOUT == "auth:logout"

getItem(store, key) == IF key \in DOMAIN store THEN <<store[key]>> ELSE <<>>
removeItem(store, key) == [k \in DOMAIN store \ {key} |-> store[k]]
setItem(store, key, value) == (key :> value) @@ store

\* authService.getToken(): the stored token, <<>> for null.
getToken(store) == getItem(store, TokenKey)
\* authService.logout(): clears the stored token.
logout(store) == removeItem(store, TokenKey)

\* if (token): null and the empty string are falsy.
HasToken(token) == token # <<>> /\ token[1] # ""

-----------------------------------------------------------------------------
(* The pure steps of request.                                               *)

API_URL == <<"/", "a", "p", "i">>

\* { ...a, ...b }
Spread(a, b) == b @@ a

\* const { k = default } = options
Option(options, k, default) == IF k \in DOMAIN options THEN options[k] ELSE default

Destructure(endpoint, options) ==
    [endpoint |-> endpoint,
     method |-> Option(options, "method", "GET"),
     body |-> Option(options, "body", Undefined),
     headers |-> Option(options, "headers", <<>>),
     skipAuth |-> Option(options, "skipAuth", FALSE),
     parseAsJson |-> Option(options, "parseAsJson", TRUE)]

BuildUrl(endpoint) ==
    API_URL \o (IF Len(endpoint) > 0 /\ endpoint[1] = "/" THEN endpoint
                ELSE <<"/">> \o endpoint)

DefaultHeaders ==
    ("Content-Type" :> "application/json") @@ ("Accept" :> "application/json")

\* Authorize without its else branch: a missing token lets the request through.
Authorize_NoRefusal(headers, skipAuth, store) ==
    LET requestHeaders == Spread(DefaultHeaders, headers)
        token == getToken(store)
    IN  IF skipAuth
        THEN [ok |-> TRUE, headers |-> requestHeaders, reads |-> <<>>]
        ELSE IF HasToken(token)
        THEN [ok |-> TRUE,
              headers |-> Spread(requestHeaders, "Authorization" :> ("Bearer " \o token[1])),
              reads |-> <<"getToken">>]
        ELSE [ok |-> TRUE, headers |-> requestHeaders, reads |-> <<"getToken">>]

\* Authorize with the caller's headers spread over the credential.
Authorize_CallerWins(headers, skipAuth, store) ==
    LET token == getToken(store)
    IN  IF skipAuth
        THEN [ok |-> TRUE, headers |-> Spread(DefaultHeaders, headers), reads |-> <<>>]
        ELSE IF HasToken(token)
        THEN [ok |-> TRUE,
              headers |-> Spread(Spread(DefaultHeaders,
                                        "Authorization" :> ("Bearer " \o token[1])),
                                 headers),
              reads |-> <<"getToken">>]
        ELSE [ok |-> FALSE, headers |-> Spread(DefaultHeaders, headers),
              reads |-> <<"getToken">>]

\* Lines 32-45: the headers of the request, or the refusal to make it.
\* reads: the calls of authService.getToken made on the way.
Authorize(headers, skipAuth, store) ==
    LET requestHeaders == Spread(DefaultHeaders, headers)
        token == getToken(store)
    IN  IF skipAuth
        THEN [ok |-> TRUE, headers |-> requestHeaders, reads |-> <<>>]
        ELSE IF HasToken(token)
        THEN [ok |-> TRUE,
              headers |-> Spread(requestHeaders, "Authorization" :> ("Bearer " \o token[1])),
              reads |-> <<"getToken">>]
        ELSE [ok |-> FALSE, headers |-> requestHeaders, reads |-> <<"getToken">>]

\* Line 51: body ? JSON.stringify(body) : undefined, <<>> for undefined.
RequestBody(body) == IF Truthy(body) THEN <<JSON_stringify(body)>> ELSE <<>>

RequestInit(f, requestHeaders) ==
    [method |-> f.method, headers |-> requestHeaders, body |-> RequestBody(f.body)]

\* response.ok
Ok(status) == status \in 200..299

\* AfterHeaders taking every error status for an expired session.
AfterHeaders_AnyError(status, parseAsJson) ==
    IF ~Ok(status) THEN "unauthorized"
    ELSE IF parseAsJson THEN "json"
    ELSE "text"

\* Lines 59, 66, 81: where the call goes once the response headers are in.
AfterHeaders(status, parseAsJson) ==
    IF status = 401 THEN "unauthorized"
    ELSE IF ~Ok(status) THEN "errorText"
    ELSE IF parseAsJson THEN "json"
    ELSE "text"

\* ErrorMessage falling back to the raw text when the parsed body has
\* neither field.
ErrorMessage_RawText(errorText) ==
    LET parsed == JSON_parse(errorText)
        errorData == parsed.value
        generic == "Request failed"
    IN  IF parsed.ok /\ errorData.detail # <<>> /\ errorData.detail[1] # ""
        THEN errorData.detail[1]
        ELSE IF parsed.ok /\ errorData.message # <<>> /\ errorData.message[1] # ""
        THEN errorData.message[1]
        ELSE IF errorText # "" THEN errorText ELSE generic

\* Lines 68-75: the message of the error thrown for a failed request.
\* Reading a property of null throws inside the try, so null takes the catch.
ErrorMessage(errorText) ==
    LET parsed == JSON_parse(errorText)
        errorData == parsed.value
        generic == "Request failed"
    IN  IF parsed.ok /\ errorData.t # "null"
        THEN IF errorData.detail # <<>> /\ errorData.detail[1] # "" THEN errorData.detail[1]
             ELSE IF errorData.message # <<>> /\ errorData.message[1] # ""
             THEN errorData.message[1]
             ELSE generic
        ELSE IF errorText # "" THEN errorText ELSE generic

\* JsonOrEmpty with an empty catch block: nothing is returned.
JsonOrEmpty_Undefined(body) ==
    IF body # <<>> /\ JSON_parse(body[1]).ok THEN JSON_parse(body[1]).value
    ELSE Undefined

\* Lines 82-87: response.json(), and the empty object when it throws.
\* body is <<>> when the body could not be read.
JsonOrEmpty(body) ==
    IF body # <<>> /\ JSON_parse(body[1]).ok THEN JSON_parse(body[1]).value
    ELSE EmptyObject

\* The error a failed transport rejects fetch, or a body read, with.
TransportError == Err("Failed to fetch")

\* Line 92: API Error (${method} ${endpoint}):, error
LogLine(f, error) == [method |-> f.method, endpoint |-> f.endpoint, error |-> error]

\* The locals that are dead once fetch has been called.
AfterFetch(f) == [f EXCEPT !.body = Undefined, !.headers = <<>>]

-----------------------------------------------------------------------------
(* The state machine.                                                       *)

Calls == DOMAIN pc

NoFrame == Destructure(<<>>, <<>>)
NoEntry == [api |-> "", body |-> Undefined]

InitCalls(n, tokens) ==
    /\ localStorage \in {<<>>} \cup {TokenKey :> t : t \in tokens}
    /\ location = "/"
    /\ dispatched = <<>>
    /\ pc = [c \in 1..n |-> "idle"]
    /\ entry = [c \in 1..n |-> NoEntry]
    /\ frame = [c \in 1..n |-> NoFrame]
    /\ network = [c \in 1..n |-> <<>>]
    /\ response = [c \in 1..n |-> <<>>]
    /\ result = [c \in 1..n |-> <<>>]
    /\ effects = [c \in 1..n |-> <<>>]
    /\ console = [c \in 1..n |-> <<>>]

Idle(c) == pc[c] = "idle"
Fetching(c) == pc[c] = "fetch"
Reading(c) == pc[c] \in {"errorText", "json", "text"}

\* The promise of call c settles.  Nothing else runs between the return or
\* throw that settles it and the settlement: only microtasks lie between.
Settle(c, kind, value) ==
    /\ pc' = [pc EXCEPT ![c] = IF kind = "resolve" THEN "resolved" ELSE "rejected"]
    /\ result' = [result EXCEPT ![c] = <<[kind |-> kind, value |-> value]>>]

Did(c, calls) == effects' = [effects EXCEPT ![c] = @ \o calls]

\* Lines 91-94: the catch around the network round trip logs and rethrows.
Catch(c, error) ==
    /\ console' = [console EXCEPT ![c] = Append(@, LogLine(frame[c], error))]
    /\ Did(c, <<"console.error", "reject">>)
    /\ Settle(c, "reject", error)

\* Lines 19-56: request, from its invocation to the await of fetch.
Request(c, endpoint, options) ==
    LET f == Destructure(endpoint, options)
        auth == Authorize(f.headers, f.skipAuth, localStorage)
    IN  /\ Idle(c)
        /\ frame' = [frame EXCEPT ![c] = f]
        /\ IF auth.ok
           THEN /\ network' = [network EXCEPT ![c] =
                        <<[url |-> BuildUrl(endpoint), init |-> RequestInit(f, auth.headers)]>>]
                /\ Did(c, auth.reads \o <<"fetch">>)
                /\ pc' = [pc EXCEPT ![c] = "fetch"]
                /\ UNCHANGED result
           ELSE /\ Did(c, auth.reads \o <<"reject">>)
                /\ Settle(c, "reject", Err("Authentication required"))
                /\ UNCHANGED network
        /\ UNCHANGED <<localStorage, location, dispatched, response, console>>

Via(c, api, body) == entry' = [entry EXCEPT ![c] = [api |-> api, body |-> body]]

CallRequest(c, endpoint, options) ==
    /\ Request(c, endpoint, options)
    /\ Via(c, "request", Undefined)

Get(c, endpoint, options) ==
    /\ Request(c, endpoint, Spread(options, [method |-> "GET"]))
    /\ Via(c, "get", Undefined)

Post(c, endpoint, body, options) ==
    /\ Request(c, endpoint, Spread(options, [method |-> "POST", body |-> body]))
    /\ Via(c, "post", body)

Put(c, endpoint, body, options) ==
    /\ Request(c, endpoint, Spread(options, [method |-> "PUT", body |-> body]))
    /\ Via(c, "put", body)

Delete(c, endpoint, options) ==
    /\ Request(c, endpoint, Spread(options, [method |-> "DELETE"]))
    /\ Via(c, "delete", Undefined)

\* FetchRejects with one retry of the fetch before giving up.
FetchRejects_Retry(c) ==
    /\ Fetching(c)
    /\ IF Len(SelectSeq(effects[c], LAMBDA x : x = "fetch")) < 2
       THEN /\ Did(c, <<"fetch">>)
            /\ UNCHANGED <<pc, entry, frame, network, result, console>>
       ELSE /\ network' = [network EXCEPT ![c] = <<>>]
            /\ frame' = [frame EXCEPT ![c] = AfterFetch(@)]
            /\ entry' = [entry EXCEPT ![c].body = Undefined]
            /\ Catch(c, TransportError)
    /\ UNCHANGED <<localStorage, location, dispatched, response>>

\* Line 56, fetch rejects: the transport failed.
FetchRejects(c) ==
    /\ Fetching(c)
    /\ network' = [network EXCEPT ![c] = <<>>]
    /\ frame' = [frame EXCEPT ![c] = AfterFetch(@)]
    /\ entry' = [entry EXCEPT ![c].body = Undefined]
    /\ Catch(c, TransportError)
    /\ UNCHANGED <<localStorage, location, dispatched, response>>

\* Unauthorized without the redirect.
Unauthorized_NoRedirect(c) ==
    /\ localStorage' = logout(localStorage)
    /\ Did(c, <<"logout", "reject">>)
    /\ Settle(c, "reject", Err("Session expired"))
    /\ UNCHANGED <<location, console>>

\* Unauthorized logging out and redirecting only while a token is still stored.
Unauthorized_Once(c) ==
    /\ IF getToken(localStorage) # <<>>
       THEN /\ localStorage' = logout(localStorage)
            /\ location' = "/login"
            /\ Did(c, <<"logout", "navigate", "reject">>)
       ELSE /\ Did(c, <<"reject">>)
            /\ UNCHANGED <<localStorage, location>>
    /\ Settle(c, "reject", Err("Session expired"))
    /\ UNCHANGED console

\* Lines 59-63: logout, redirect, and a rejected promise returned from inside
\* the try without await, which the catch therefore never sees.
Unauthorized(c) ==
    /\ localStorage' = logout(localStorage)
    /\ location' = "/login"
    /\ Did(c, <<"logout", "navigate", "reject">>)
    /\ Settle(c, "reject", Err("Session expired"))
    /\ UNCHANGED console

\* Lines 67, 83, 89: the call awaits the body.
AwaitBody(c, next) ==
    /\ pc' = [pc EXCEPT ![c] = next]
    /\ UNCHANGED <<localStorage, location, result, effects, console>>

\* Line 56, fetch resolves: the response headers are in.
FetchResolves(c, status) ==
    LET next == AfterHeaders(status, frame[c].parseAsJson)
    IN  /\ Fetching(c)
        /\ network' = [network EXCEPT ![c] = <<>>]
        /\ response' = [response EXCEPT ![c] = <<[status |-> status, body |-> <<>>]>>]
        /\ frame' = [frame EXCEPT ![c] = AfterFetch(@)]
        /\ entry' = [entry EXCEPT ![c].body = Undefined]
        /\ IF next = "unauthorized" THEN Unauthorized(c) ELSE AwaitBody(c, next)
        /\ UNCHANGED dispatched

\* Lines 67-78, 83, 89: the rest of request once the body has been read
\* (body = <<text>>) or its read has failed (body = <<>>).
Finish(c, body) ==
    CASE pc[c] = "errorText" ->
            IF body = <<>> THEN Catch(c, TransportError)
            ELSE Catch(c, Err(ErrorMessage(body[1])))
      [] pc[c] = "json" ->
            /\ Did(c, <<"resolve">>)
            /\ Settle(c, "resolve", JsonOrEmpty(body))
            /\ UNCHANGED console
      [] pc[c] = "text" ->
            IF body = <<>> THEN Catch(c, TransportError)
            ELSE /\ Did(c, <<"resolve">>)
                 /\ Settle(c, "resolve", Str(body[1]))
                 /\ UNCHANGED console

BodyArrives(c, text) ==
    /\ Reading(c)
    /\ response' = [response EXCEPT ![c][1].body = <<text>>]
    /\ Finish(c, <<text>>)
    /\ UNCHANGED <<localStorage, location, dispatched, entry, frame, network>>

BodyFails(c) ==
    /\ Reading(c)
    /\ Finish(c, <<>>)
    /\ UNCHANGED <<localStorage, location, dispatched, entry, frame, network, response>>

\* The login flow, outside this code, stores a token.
Login(token) ==
    /\ localStorage' = setItem(localStorage, TokenKey, token)
    /\ localStorage' # localStorage
    /\ UNCHANGED <<location, dispatched, pc, entry, frame, network, response,
                   result, effects, console>>

\* authUtils.logout
Logout ==
    /\ Len(dispatched) < MaxEvents
    /\ localStorage' = removeItem(localStorage, "authToken")
    /\ dispatched' = Append(dispatched, LOGOUT)
    /\ UNCHANGED <<location, pc, entry, frame, network, response, result,
                   effects, console>>

Init == InitCalls(1, Tokens)

Next ==
    \/ \E c \in Calls : Idle(c) /\ \E e \in Endpoints, o \in RequestOptions :
            CallRequest(c, e, o)
    \/ \E c \in Calls : Idle(c) /\ \E e \in Endpoints, o \in GetOptions :
            Get(c, e, o)
    \/ \E c \in Calls : Idle(c) /\ \E e \in Endpoints, b \in Bodies, o \in BodyOptions :
            Post(c, e, b, o)
    \/ \E c \in Calls : Idle(c) /\ \E e \in Endpoints, b \in Bodies, o \in BodyOptions :
            Put(c, e, b, o)
    \/ \E c \in Calls : Idle(c) /\ \E e \in Endpoints, o \in BodyOptions :
            Delete(c, e, o)
    \/ \E c \in Calls : FetchRejects(c)
    \/ \E c \in Calls : Fetching(c) /\ \E s \in Statuses : FetchResolves(c, s)
    \/ \E c \in Calls : Reading(c) /\ \E t \in Texts : BodyArrives(c, t)
    \/ \E c \in Calls : BodyFails(c)
    \/ \E t \in Tokens : Login(t)
    \/ Logout

Spec == Init /\ [][Next]_vars

\* Several calls in flight at once, over few inputs.
InitConcurrent == InitCalls(MaxCalls, FewTokens)

NextConcurrent ==
    \/ \E c \in Calls : Idle(c) /\ \E e \in FewEndpoints, o \in FewBags :
            CallRequest(c, e, o)
    \/ \E c \in Calls : FetchRejects(c)
    \/ \E c \in Calls : Fetching(c) /\ \E s \in FewStatuses : FetchResolves(c, s)
    \/ \E c \in Calls : Reading(c) /\ \E t \in FewTexts : BodyArrives(c, t)
    \/ \E c \in Calls : BodyFails(c)
    \/ \E t \in FewTokens : Login(t)
    \/ Logout

SpecConcurrent == InitConcurrent /\ [][NextConcurrent]_vars

-----------------------------------------------------------------------------
(* What the properties below talk about.                                    *)

\* How often call x occurs in the sequence of calls s.
Times(s, x) == Cardinality({i \in 1..Len(s) : s[i] = x})
\* Every b in s has an a before it.
Precedes(s, a, b) == \A j \in 1..Len(s) : s[j] = b => \E i \in 1..(j - 1) : s[i] = a

StoredToken == getItem(localStorage, "authToken")
Settled(c) == pc[c] \in {"resolved", "rejected"}
RejectedWith(c, message) ==
    /\ pc[c] = "rejected"
    /\ result[c] = <<[kind |-> "reject", value |-> Err(message)]>>
ResolvedWith(c, value) ==
    /\ pc[c] = "resolved"
    /\ result[c] = <<[kind |-> "resolve", value |-> value]>>
\* Call c is invoked in this step.
Starts(c) == Idle(c) /\ ~(Idle(c))'
\* The response headers of call c arrive in this step, with this status.
Answered(c, status) ==
    Fetching(c) /\ response'[c] # <<>> /\ response'[c][1].status = status
\* Call c has had a response with an error status other than 401 and has read its body.
FailedWithBody(c) ==
    /\ Settled(c)
    /\ response[c] # <<>>
    /\ ~Ok(response[c][1].status)
    /\ response[c][1].status # 401
    /\ response[c][1].body # <<>>
Message(c) == result[c][1].value.v
ErrorText(c) == response[c][1].body[1]

-----------------------------------------------------------------------------
\* C1: a call with skipAuth false made while no token (or an empty one) is
\* stored issues no fetch and rejects with 'Authentication required',
\* whichever exported function, endpoint, method, body and headers it is made with.
C1_MissingCredential ==
    [][\A c \in Calls :
        (Starts(c) /\ ~frame'[c].skipAuth /\ ~HasToken(StoredToken))
        => /\ RejectedWith(c, "Authentication required")'
           /\ network'[c] = <<>>
           /\ Times(effects'[c], "fetch") = 0]_vars

C1_Witness ==
    \E c \in Calls :
        /\ RejectedWith(c, "Authentication required")
        /\ entry[c].api = "post"
        /\ frame[c].headers # <<>>
        /\ "fetch" \notin {effects[c][i] : i \in 1..Len(effects[c])}

\* C2: when the response has status 401, whatever the method and the options
\* (skipAuth included), the step that handles it leaves the token store
\* empty, has set the location to the login route and rejects with 'Session
\* expired'; logout and navigation come before the rejection.
C2_Unauthorized ==
    [][\A c \in Calls :
        Answered(c, 401)
        => /\ TokenKey \notin DOMAIN localStorage'
           /\ location' = "/login"
           /\ RejectedWith(c, "Session expired")'
           /\ Times(effects'[c], "logout") = 1
           /\ Times(effects'[c], "navigate") = 1
           /\ Times(effects'[c], "reject") = 1
           /\ Precedes(effects'[c], "logout", "reject")
           /\ Precedes(effects'[c], "navigate", "reject")]_vars

C2_Witness ==
    \E c \in Calls :
        /\ RejectedWith(c, "Session expired")
        /\ response[c][1].status = 401
        /\ frame[c].skipAuth
        /\ frame[c].method = "PATCH"
        /\ StoredToken = <<>>
        /\ location = "/login"

\* C3 as stated: for a non-success status other than 401 the message is the
\* body's detail if it parses as JSON and has one, else its message, else
\* the raw body text, else 'Request failed'; so valid JSON with neither
\* field yields the raw text.
C3_AsStated ==
    \A c \in Calls :
        FailedWithBody(c) =>
            LET text == ErrorText(c)
                parsed == JSON_parse(text)
                has(field) == parsed.ok /\ field # <<>> /\ field[1] # ""
            IN  Message(c) =
                    IF has(parsed.value.detail) THEN parsed.value.detail[1]
                    ELSE IF has(parsed.value.message) THEN parsed.value.message[1]
                    ELSE IF text # "" THEN text
                    ELSE "Request failed"

\* C3 as amended: when the body parses as JSON to anything but null, the
\* message is its detail if that is a non-empty string, else its message if
\* that is one, else 'Request failed' (never the raw text); when the body
\* does not parse, or parses to null, the message is the raw text, or
\* 'Request failed' for an empty body.  500 with {"detail":"bad"} gives
\* 'bad', 500 with oops gives 'oops'.
C3_ErrorMessage ==
    \A c \in Calls :
        FailedWithBody(c) =>
            LET text == ErrorText(c)
                parsed == JSON_parse(text)
                data == parsed.value
                usable == parsed.ok /\ data.t # "null"
                has(field) == field # <<>> /\ field[1] # ""
            IN  /\ pc[c] = "rejected"
                /\ result[c][1].value.t = "Error"
                /\ usable /\ has(data.detail) => Message(c) = data.detail[1]
                /\ usable /\ ~has(data.detail) /\ has(data.message)
                        => Message(c) = data.message[1]
                /\ usable /\ ~has(data.detail) /\ ~has(data.message)
                        => Message(c) = "Request failed"
                /\ ~usable /\ text # "" => Message(c) = text
                /\ text = "" => Message(c) = "Request failed"
                /\ text = "{\"detail\":\"bad\"}" => Message(c) = "bad"
                /\ text = "{\"detail\":\"bad\",\"message\":\"msg\"}" => Message(c) = "bad"
                /\ text = "{\"message\":\"msg\"}" => Message(c) = "msg"
                /\ text = "oops" => Message(c) = "oops"
                /\ text = "{}" => Message(c) = "Request failed"

C3_Witness ==
    \E c \in Calls :
        /\ FailedWithBody(c)
        /\ response[c][1].status = 500
        /\ ErrorText(c) = "{}"
        /\ RejectedWith(c, "Request failed")

\* C4: a call of post or put sends the given body serialized to JSON once,
\* for every body value; a call of get or delete sends no body, whatever
\* options it is given.
C4_Bodies ==
    \A c \in Calls :
        Fetching(c) =>
            LET sent == network[c][1].init.body
            IN  /\ (entry[c].api \in {"post", "put"} /\ entry[c].body # Undefined)
                    => sent = <<JSON_stringify(entry[c].body)>>
                /\ entry[c].api \in {"get", "delete"} => sent = <<>>

\* C5: a call that rejects has written a console.error line with its method
\* and endpoint before rejecting; a call that resolves has written none.
C5_Logged ==
    \A c \in Calls :
        /\ pc[c] = "rejected"
            => /\ Len(console[c]) >= 1
               /\ \A i \in 1..Len(console[c]) :
                    /\ console[c][i].method = frame[c].method
                    /\ console[c][i].endpoint = frame[c].endpoint
               /\ Precedes(effects[c], "console.error", "reject")
        /\ pc[c] = "resolved" => console[c] = <<>>

\* C6: a call that passes the credential check issues exactly one fetch, and
\* no call ever issues a second one, whatever the outcome and whichever
\* exported function was used.
C6_OneFetch ==
    [][\A c \in Calls :
        /\ Times(effects'[c], "fetch") <= 1
        /\ Len(network'[c]) <= 1
        /\ (Starts(c) /\ (frame'[c].skipAuth \/ HasToken(StoredToken)))
            => /\ Times(effects'[c], "fetch") = 1
               /\ Len(network'[c]) = 1
        /\ ~Idle(c)
            => /\ Times(effects'[c], "fetch") = Times(effects[c], "fetch")
               /\ Len(network'[c]) <= Len(network[c])]_vars

C6_Witness ==
    \E c \in Calls :
        /\ entry[c].api = "put"
        /\ RejectedWith(c, "Failed to fetch")
        /\ response[c] = <<>>
        /\ Times(effects[c], "fetch") = 1

\* C7: with a success status the outcome never depends on what the body
\* says: with parseAsJson the call resolves to the parsed value, or to the
\* empty object when the body does not parse (an empty body) or cannot be
\* read; without it the call resolves to the body text as it is, valid
\* JSON included, and rejects only when the body cannot be read.
C7_Success ==
    \A c \in Calls :
        (Settled(c) /\ response[c] # <<>> /\ Ok(response[c][1].status)) =>
            LET body == response[c][1].body
                json == frame[c].parseAsJson
            IN  /\ json /\ body # <<>> /\ JSON_parse(body[1]).ok
                    => ResolvedWith(c, JSON_parse(body[1]).value)
                /\ json /\ body # <<>> /\ ~JSON_parse(body[1]).ok
                    => ResolvedWith(c, EmptyObject)
                /\ json /\ body = <<>> => ResolvedWith(c, EmptyObject)
                /\ json /\ body = <<"">> => ResolvedWith(c, Obj(<<>>, <<>>))
                /\ json /\ body = <<"{\"detail\":\"bad\"}">>
                    => ResolvedWith(c, Obj(<<"bad">>, <<>>))
                /\ ~json /\ body # <<>> => ResolvedWith(c, Str(body[1]))
                /\ pc[c] = "rejected" => ~json /\ body = <<>>

C7_Witness ==
    \E c \in Calls :
        /\ response[c] # <<>>
        /\ response[c][1].status = 200
        /\ response[c][1].body = <<"">>
        /\ frame[c].parseAsJson
        /\ ResolvedWith(c, EmptyObject)

\* C8 as stated: every fetch issued while a token is stored carries
\* Authorization: Bearer <that token>, also over a caller's own Authorization
\* header, and no fetch carries a bearer credential of an absent or empty token.
C8_AsStated ==
    [][\A c \in Calls :
        (Starts(c) /\ network'[c] # <<>>) =>
            LET sent == network'[c][1].init.headers
            IN  /\ HasToken(StoredToken)
                    => /\ "Authorization" \in DOMAIN sent
                       /\ sent["Authorization"] = "Bearer " \o StoredToken[1]
                /\ ~HasToken(StoredToken)
                    => \/ "Authorization" \notin DOMAIN sent
                       \/ sent["Authorization"] \notin {"Bearer ", "Bearer null", "Bearer undefined"}]_vars

\* C8 as amended: every fetch issued by a call with skipAuth false carries
\* Authorization: Bearer <the token stored when the call started>, also over
\* a caller's own Authorization header; a call with skipAuth true attaches
\* no credential even while a token is stored: its headers are the defaults
\* overlaid with the caller's; no fetch carries a bearer credential of an
\* absent or empty token.
C8_Authorization ==
    [][\A c \in Calls :
        (Starts(c) /\ network'[c] # <<>>) =>
            LET sent == network'[c][1].init.headers
                own == frame'[c].headers
            IN  /\ ~frame'[c].skipAuth
                    => /\ HasToken(StoredToken)
                       /\ "Authorization" \in DOMAIN sent
                       /\ sent["Authorization"] = "Bearer " \o StoredToken[1]
                /\ frame'[c].skipAuth
                    => /\ DOMAIN sent = {"Content-Type", "Accept"} \cup DOMAIN own
                       /\ \A k \in DOMAIN own : sent[k] = own[k]
                /\ ~HasToken(StoredToken)
                    => \/ "Authorization" \notin DOMAIN sent
                       \/ sent["Authorization"] \notin {"Bearer ", "Bearer null", "Bearer undefined"}]_vars

C8_Witness ==
    \E c \in Calls :
        /\ Fetching(c)
        /\ ~frame[c].skipAuth
        /\ "Authorization" \in DOMAIN frame[c].headers
        /\ frame[c].headers["Authorization"] = "Basic x"
        /\ network[c][1].init.headers["Authorization"] = "Bearer t2"

\* C9: a step of request other than the handling of a 401 writes neither
\* the token store nor the location: a call that resolves, or rejects for a
\* missing credential, a failed request or a failed transport, has made no
\* logout and no navigation.
C9_Frame ==
    [][\A c \in Calls :
        (pc'[c] # pc[c] /\ ~Answered(c, 401))
        => /\ localStorage' = localStorage
           /\ location' = location
           /\ Times(effects'[c], "logout") = 0
           /\ Times(effects'[c], "navigate") = 0]_vars

C9_Witness ==
    \E c \in Calls :
        /\ RejectedWith(c, "oops")
        /\ response[c][1].status = 404
        /\ StoredToken = <<"t1">>
        /\ location = "/"

\* What C10 says beyond how often the token is read: a call with skipAuth
\* false that starts after some call has cleared the token on a 401, the
\* store still being empty, issues no fetch and rejects for the missing
\* credential; a call already in flight settles by its own status.
C10_Rest(c) ==
    /\ (Starts(c) /\ ~frame'[c].skipAuth /\ StoredToken = <<>>
            /\ \E d \in Calls : RejectedWith(d, "Session expired"))
        => /\ RejectedWith(c, "Authentication required")'
           /\ Times(effects'[c], "fetch") = 0
    /\ Answered(c, 401)
        => /\ RejectedWith(c, "Session expired")'
           /\ StoredToken' = <<>>
           /\ location' = "/login"
           /\ Times(effects'[c], "logout") = 1
           /\ Times(effects'[c], "navigate") = 1
    /\ \A s \in FewStatuses \ {401} :
        Answered(c, s) => /\ pc'[c] \in {"json", "text", "errorText"}
                          /\ localStorage' = localStorage

\* C10 as stated: under any interleaving, each call reads the token exactly
\* once, before its fetch, and the rest.
C10_AsStated ==
    [][\A c \in Calls :
        /\ ~(Idle(c))'
            => /\ Times(effects'[c], "getToken") = 1
               /\ Precedes(effects'[c], "getToken", "fetch")
        /\ C10_Rest(c)]_vars

\* C10 as amended: under any interleaving, each call with skipAuth false
\* reads the token exactly once, before its fetch, and a call with skipAuth
\* true never reads it; and the rest.
C10_Concurrent ==
    [][\A c \in Calls :
        /\ (~(Idle(c))' /\ ~frame'[c].skipAuth)
            => /\ Times(effects'[c], "getToken") = 1
               /\ Precedes(effects'[c], "getToken", "fetch")
        /\ (~(Idle(c))' /\ frame'[c].skipAuth)
            => Times(effects'[c], "getToken") = 0
        /\ C10_Rest(c)]_vars

\* Two calls went out with the same token; one has cleared it on its 401
\* while the other is still in flight with it, and a third, started with the
\* store empty, has been refused.
C10_Witness ==
    \E c, d, e \in Calls :
        /\ RejectedWith(c, "Session expired")
        /\ Fetching(d)
        /\ ~frame[d].skipAuth
        /\ network[d][1].init.headers["Authorization"] = "Bearer t1"
        /\ RejectedWith(e, "Authentication required")
        /\ StoredToken = <<>>
        /\ dispatched = <<>>

====
